---- MODULE Spec2Model ----
(***************************************************************************)
(* A model of the load balancer of lb.go / strategy.go / main.go: the      *)
(* four balancing strategies, the consistent-hash ring, the control-plane  *)
(* event loop and the data-plane proxy.                                    *)
(*                                                                         *)
(* Go slices are 0-indexed and TLA+ sequences 1-indexed: an index kept in  *)
(* the state (Index, a search result) has Go's value, and an access        *)
(* s[i] of the code reads s[i + 1] here.                                   *)
(*                                                                         *)
(* A uint32 is the pair <<hi, lo>> of its 16-bit halves (the value is      *)
(* hi * 65536 + lo): TLC's integers are 32-bit signed, and ring positions  *)
(* use all 32 bits.                                                        *)
(***************************************************************************)
EXTENDS Integers, Sequences, FiniteSets, TLC

(***************************************************************************)
(* Bounds and input sets.                                                  *)
(***************************************************************************)

\* The longest backend list the operator is let to build (add is refused
\* by the model, not by the code, beyond it).
MaxBackends == 5

\* In the statement-by-statement runs: the commands the operator types and
\* the connections that arrive.
MaxCmds == 2
NumTasks == 2

\* The ports the operator adds: one of the seed (a duplicate identity) and
\* a new one.
AddPorts == {8084, 8085}

\* The ports the operator removes.
RemovePorts == {8081, 8082, 8083, 8084, 8085}

\* The events that carry a payload, for an event whose payload is not of
\* the type its case asserts.
PayloadCmds == {"backend:add", "backend:remove", "strategy:change"}

\* The strategy names the operator types: the documented names and one
\* unknown name.
StrategyNames == {"rr", "static", "simple", "ch", "bogus"}

\* The routing keys of inbound connections (uuid.NewString() in the code,
\* any string): a probe address and a string that hashes exactly onto a
\* backend's ring position.
ConnKeys == {"10.0.0.1", "localhost:8084"}

(***************************************************************************)
(* Program constants.                                                      *)
(***************************************************************************)

\* The nil *Backend.
Nil == 0

\* InitLB's seed backends and demo keys.
SeedBackends == <<8081, 8082, 8083, 8084>>

demoKeys ==
  << "10.0.0.1", "10.0.0.2", "10.0.0.3", "10.0.0.4",
     "10.0.0.5", "10.0.0.6", "10.0.0.7", "10.0.0.8",
     "10.0.0.9", "10.0.0.10", "10.0.0.11", "10.0.0.12" >>

Ports == {8081, 8082, 8083, 8084, 8085, 8086}

\* Backend.String(): fmt.Sprintf("%s:%d", b.Host, b.Port), Host "localhost".
BackendString(p) ==
  CASE p = 8081 -> "localhost:8081"
    [] p = 8082 -> "localhost:8082"
    [] p = 8083 -> "localhost:8083"
    [] p = 8084 -> "localhost:8084"
    [] p = 8085 -> "localhost:8085"
    [] p = 8086 -> "localhost:8086"

AllKeys == {demoKeys[i] : i \in 1..Len(demoKeys)} \cup ConnKeys
            \cup {BackendString(p) : p \in Ports}

(***************************************************************************)
(* Hashing.                                                                *)
(***************************************************************************)

\* []byte(s): the bytes of the strings the model uses.
Bytes(s) ==
  CASE s = "localhost:8081" -> <<108, 111, 99, 97, 108, 104, 111, 115, 116, 58, 56, 48, 56, 49>>
    [] s = "localhost:8082" -> <<108, 111, 99, 97, 108, 104, 111, 115, 116, 58, 56, 48, 56, 50>>
    [] s = "localhost:8083" -> <<108, 111, 99, 97, 108, 104, 111, 115, 116, 58, 56, 48, 56, 51>>
    [] s = "localhost:8084" -> <<108, 111, 99, 97, 108, 104, 111, 115, 116, 58, 56, 48, 56, 52>>
    [] s = "localhost:8085" -> <<108, 111, 99, 97, 108, 104, 111, 115, 116, 58, 56, 48, 56, 53>>
    [] s = "localhost:8086" -> <<108, 111, 99, 97, 108, 104, 111, 115, 116, 58, 56, 48, 56, 54>>
    [] s = "10.0.0.1"       -> <<49, 48, 46, 48, 46, 48, 46, 49>>
    [] s = "10.0.0.2"       -> <<49, 48, 46, 48, 46, 48, 46, 50>>
    [] s = "10.0.0.3"       -> <<49, 48, 46, 48, 46, 48, 46, 51>>
    [] s = "10.0.0.4"       -> <<49, 48, 46, 48, 46, 48, 46, 52>>
    [] s = "10.0.0.5"       -> <<49, 48, 46, 48, 46, 48, 46, 53>>
    [] s = "10.0.0.6"       -> <<49, 48, 46, 48, 46, 48, 46, 54>>
    [] s = "10.0.0.7"       -> <<49, 48, 46, 48, 46, 48, 46, 55>>
    [] s = "10.0.0.8"       -> <<49, 48, 46, 48, 46, 48, 46, 56>>
    [] s = "10.0.0.9"       -> <<49, 48, 46, 48, 46, 48, 46, 57>>
    [] s = "10.0.0.10"      -> <<49, 48, 46, 48, 46, 48, 46, 49, 48>>
    [] s = "10.0.0.11"      -> <<49, 48, 46, 48, 46, 48, 46, 49, 49>>
    [] s = "10.0.0.12"      -> <<49, 48, 46, 48, 46, 48, 46, 49, 50>>

\* a XOR b on n-bit operands.
RECURSIVE Xor(_, _, _)
Xor(a, b, n) ==
  IF n = 0 THEN 0
  ELSE (((a % 2) + (b % 2)) % 2) + 2 * Xor(a \div 2, b \div 2, n - 1)

\* One byte into the FNV-1a state: h = (h XOR c) * 16777619 mod 2^32.
\* 16777619 = 256 * 65536 + 403.
FnvByte(h, c) ==
  LET lo == Xor(h[2], c, 16)
      hi == h[1]
  IN  << (hi * 403 + (lo % 256) * 256 + ((lo * 403) \div 65536)) % 65536,
         (lo * 403) % 65536 >>

RECURSIVE FnvWrite(_, _)
FnvWrite(h, bs) ==
  IF bs = <<>> THEN h ELSE FnvWrite(FnvByte(h, Head(bs)), Tail(bs))

\* fnv.New32a(); h.Write([]byte(key)); h.Sum32(). Offset basis 0x811c9dc5.
fnv32a == [s \in AllKeys |-> FnvWrite(<<33052, 40389>>, Bytes(s))]

\* uint32 h % uint32(n), 0 < n < 65536.
ModU32(h, n) == ((h[1] % n) * (65536 % n) + (h[2] % n)) % n

\* binary.BigEndian.Uint32(sha256.Sum256([]byte(s))[:4]): the first four
\* bytes of the SHA-256 digest of s, for the strings the model uses.
Sum256First4(s) ==
  CASE s = "localhost:8081" -> <<5326, 43911>>     \* 14ceab87
    [] s = "localhost:8082" -> <<48360, 34366>>    \* bce8863e
    [] s = "localhost:8083" -> <<34310, 89>>       \* 86060059
    [] s = "localhost:8084" -> <<52958, 1100>>     \* cede044c
    [] s = "localhost:8085" -> <<60106, 17030>>    \* eaca4286
    [] s = "localhost:8086" -> <<59471, 30207>>    \* e84f75ff
    [] s = "10.0.0.1"       -> <<62724, 29508>>    \* f5047344
    [] s = "10.0.0.2"       -> <<52063, 14260>>    \* cb5f37b4
    [] s = "10.0.0.3"       -> <<43429, 4717>>     \* a9a5126d
    [] s = "10.0.0.4"       -> <<6157, 13197>>     \* 180d338d
    [] s = "10.0.0.5"       -> <<1350, 16685>>     \* 0546412d
    [] s = "10.0.0.6"       -> <<42842, 29708>>    \* a75a740c
    [] s = "10.0.0.7"       -> <<4878, 19883>>     \* 130e4dab
    [] s = "10.0.0.8"       -> <<49656, 18974>>    \* c1f84a1e
    [] s = "10.0.0.9"       -> <<8995, 14217>>     \* 23233789
    [] s = "10.0.0.10"      -> <<60344, 22218>>    \* ebb856ca
    [] s = "10.0.0.11"      -> <<35665, 47850>>    \* 8b51baea
    [] s = "10.0.0.12"      -> <<49922, 15730>>    \* c3023d72

\* a < b and a <= b on uint32.
LessU32(a, b) == a[1] < b[1] \/ (a[1] = b[1] /\ a[2] < b[2])
LeqU32(a, b) == a = b \/ LessU32(a, b)

\* totalSlots, a uint64, is the triple of its 16-bit limbs above bit 32,
\* bits 16..31 and bits 0..15: 1 << 32 is <<1, 0, 0>>.
TotalSlots == <<1, 0, 0>>

\* chPos: v % totalSlots (v itself when totalSlots is 0). A uint32 v is
\* below any totalSlots >= 2^32; a totalSlots below 2^16 reduces v by
\* ModU32. NewConsistentHashStrategy, the only constructor, sets 1 << 32.
chPos(key, totalSlots) ==
  LET v == Sum256First4(key)
  IN  CASE totalSlots = <<0, 0, 0>> -> v
        [] totalSlots[1] >= 1 -> v
        [] totalSlots[1] = 0 /\ totalSlots[2] = 0 /\ totalSlots[3] > 0 ->
             <<0, ModU32(v, totalSlots[3])>>

\* sort.Search(n, f): the smallest i in [0, n] with f(i), by binary search
\* (f is a function on 0..n-1).
RECURSIVE SearchLoop(_, _, _)
SearchLoop(f, i, j) ==
  IF i < j
    THEN LET h == (i + j) \div 2
         IN  IF ~f[h] THEN SearchLoop(f, h + 1, j) ELSE SearchLoop(f, i, h)
    ELSE i

sortSearch(n, f) == SearchLoop(f, 0, n)

(***************************************************************************)
(* The strategies. A strategy object is a record with the fields of all    *)
(* four structs; kind names the struct, and a field a struct does not have *)
(* keeps its zero value.                                                   *)
(*   Index, Backends           RRBalancingStrategy, StaticBalancingStrategy*)
(*   Backends                  SimpleHashStrategy                          *)
(*   keys, backends, totalSlots  ConsistentHashStrategy                    *)
(* A *Backend is its port; Host is "localhost" for every backend.          *)
(***************************************************************************)

ZeroStrategy(kind) ==
  [kind |-> kind, Index |-> 0, Backends |-> <<>>,
   keys |-> <<>>, backends |-> <<>>, totalSlots |-> <<0, 0, 0>>]

\* An insert that appends whatever the index is.
insertAtEnd(s, k, b, i) ==
  [s EXCEPT !.keys = Append(@, k), !.backends = Append(@, b)]

\* The two branches of s.insert once the index i is known: append at the
\* end, or shift the tail right by one (append(s[:i+1], s[i:]...)) and
\* overwrite entry i.
insertAt(s, k, b, i) ==
  IF i = Len(s.keys)
    THEN [s EXCEPT !.keys = Append(@, k), !.backends = Append(@, b)]
    ELSE [s EXCEPT
            !.keys = [SubSeq(@, 1, i + 1) \o SubSeq(@, i + 1, Len(@)) EXCEPT ![i + 1] = k],
            !.backends = [SubSeq(@, 1, i + 1) \o SubSeq(@, i + 1, Len(@)) EXCEPT ![i + 1] = b]]

\* s.insert(k, b): i is the first index whose key is >= k.
insert(s, k, b) ==
  insertAt(s, k, b,
    sortSearch(Len(s.keys), [j \in 0..(Len(s.keys) - 1) |-> LeqU32(k, s.keys[j + 1])]))

\* The loop of ConsistentHashStrategy.Init: insert every backend at the
\* position of its identity.
RECURSIVE InsertAll(_, _)
InsertAll(s, bs) ==
  IF bs = <<>> THEN s
  ELSE InsertAll(insert(s, chPos(BackendString(Head(bs)), s.totalSlots), Head(bs)),
                 Tail(bs))

\* An Init that inserts into the ring without emptying it first.
InitWithoutReset(s, bs) == InsertAll(s, bs)

\* ConsistentHashStrategy.Init: truncate both slices, then insert.
ConsistentHashInit(s, bs) ==
  InsertAll([s EXCEPT !.keys = <<>>, !.backends = <<>>], bs)

\* An Init that replaces the list and keeps the cursor.
InitKeepsIndex(s, bs) == [s EXCEPT !.Backends = bs]

\* RRBalancingStrategy.Init and StaticBalancingStrategy.Init.
IndexedInit(s, bs) == [s EXCEPT !.Index = 0, !.Backends = bs]

\* SimpleHashStrategy.Init.
SimpleHashInit(s, bs) == [s EXCEPT !.Backends = bs]

\* BalancingStrategy.Init, by the dynamic type of s.
StrategyInit(s, bs) ==
  CASE s.kind = "ch"     -> ConsistentHashInit(s, bs)
    [] s.kind = "rr"     -> IndexedInit(s, bs)
    [] s.kind = "static" -> IndexedInit(s, bs)
    [] s.kind = "simple" -> SimpleHashInit(s, bs)

\* SimpleHashStrategy.RegisterBackend, RRBalancingStrategy.RegisterBackend
\* and StaticBalancingStrategy.RegisterBackend: append to s.Backends.
ListRegisterBackend(s, b) == [s EXCEPT !.Backends = Append(@, b)]

\* ConsistentHashStrategy.RegisterBackend: insert at the position of the
\* backend's identity.
ConsistentHashRegisterBackend(s, b) ==
  insert(s, chPos(BackendString(b), s.totalSlots), b)

\* BalancingStrategy.RegisterBackend, by the dynamic type of s.
RegisterBackend(s, b) ==
  CASE s.kind = "ch"     -> ConsistentHashRegisterBackend(s, b)
    [] s.kind = "rr"     -> ListRegisterBackend(s, b)
    [] s.kind = "static" -> ListRegisterBackend(s, b)
    [] s.kind = "simple" -> ListRegisterBackend(s, b)

NewConsistentHashStrategy(bs) ==
  ConsistentHashInit([ZeroStrategy("ch") EXCEPT !.totalSlots = TotalSlots], bs)
NewRRBalancingStrategy(bs) == IndexedInit(ZeroStrategy("rr"), bs)
NewStaticBalancingStrategy(bs) == IndexedInit(ZeroStrategy("static"), bs)
NewSimpleHashStrategy(bs) == SimpleHashInit(ZeroStrategy("simple"), bs)

\* GetNextBackend returns the pair of the backend (Nil for none) and the
\* strategy object as the call leaves it.

\* A SimpleHash selection one position after hash mod length.
SimpleHashNextSlot(s, key) ==
  IF Len(s.Backends) = 0 THEN [b |-> Nil, s |-> s]
  ELSE [b |-> s.Backends[((ModU32(fnv32a[key], Len(s.Backends)) + 1)
                            % Len(s.Backends)) + 1],
        s |-> s]

\* A SimpleHash selection that shifts by a counter it advances.
SimpleHashRotating(s, key) ==
  IF Len(s.Backends) = 0 THEN [b |-> Nil, s |-> s]
  ELSE [b |-> s.Backends[((ModU32(fnv32a[key], Len(s.Backends)) + s.Index)
                            % Len(s.Backends)) + 1],
        s |-> [s EXCEPT !.Index = (@ + 1) % Len(s.Backends)]]

\* SimpleHashStrategy.GetNextBackend.
SimpleHashGetNextBackend(s, key) ==
  LET n == Len(s.Backends)
  IN  IF n = 0 THEN [b |-> Nil, s |-> s]
      ELSE [b |-> s.Backends[ModU32(fnv32a[key], n) + 1], s |-> s]

\* A cursor that advances by two.
RRSkip(s) == [s EXCEPT !.Index = (@ + 2) % Len(s.Backends)]

\* RRBalancingStrategy.GetNextBackend: s.Index = (s.Index + 1) % len, then
\* s.Backends[s.Index].
RRAdvance(s) == [s EXCEPT !.Index = (@ + 1) % Len(s.Backends)]

\* A round-robin selection that answers an empty list with a backend.
RRWithoutLengthTest(s, key) ==
  IF Len(s.Backends) = 0 THEN [b |-> 8081, s |-> s]
  ELSE [b |-> RRAdvance(s).Backends[RRAdvance(s).Index + 1], s |-> RRAdvance(s)]

RRGetNextBackend(s, key) ==
  IF Len(s.Backends) = 0 THEN [b |-> Nil, s |-> s]
  ELSE [b |-> RRAdvance(s).Backends[RRAdvance(s).Index + 1], s |-> RRAdvance(s)]

\* A Static selection that picks by the key's hash.
StaticByKey(s, key) ==
  IF Len(s.Backends) = 0 THEN [b |-> Nil, s |-> s]
  ELSE [b |-> s.Backends[ModU32(fnv32a[key], Len(s.Backends)) + 1], s |-> s]

\* StaticBalancingStrategy.GetNextBackend.
StaticGetNextBackend(s, key) ==
  IF Len(s.Backends) = 0 THEN [b |-> Nil, s |-> s]
  ELSE [b |-> s.Backends[s.Index + 1], s |-> s]

\* A search for the first index whose key is >= slot.
RingSearchAtOrAfter(keys, slot) ==
  sortSearch(Len(keys), [j \in 0..(Len(keys) - 1) |-> LeqU32(slot, keys[j + 1])])

\* The ring lookup of ConsistentHashStrategy.GetNextBackend: the first
\* index whose key is > slot (len(keys) when there is none).
RingSearch(keys, slot) ==
  sortSearch(Len(keys), [j \in 0..(Len(keys) - 1) |-> LessU32(slot, keys[j + 1])])

\* A selection by hash modulo the number of ring entries.
ModuloGetNextBackend(s, key) ==
  IF Len(s.backends) = 0 THEN [b |-> Nil, s |-> s]
  ELSE [b |-> s.backends[ModU32(fnv32a[key], Len(s.backends)) + 1], s |-> s]

\* A lookup that picks the ring entry before the one the search finds.
CounterClockwiseGetNextBackend(s, key) ==
  IF Len(s.backends) = 0 THEN [b |-> Nil, s |-> s]
  ELSE [b |-> s.backends[((RingSearch(s.keys, chPos(key, s.totalSlots))
                             + Len(s.backends) - 1) % Len(s.backends)) + 1],
        s |-> s]

\* ConsistentHashStrategy.GetNextBackend.
ConsistentHashGetNextBackend(s, key) ==
  IF Len(s.backends) = 0 THEN [b |-> Nil, s |-> s]
  ELSE [b |-> s.backends[(RingSearch(s.keys, chPos(key, s.totalSlots))
                            % Len(s.backends)) + 1],
        s |-> s]

\* BalancingStrategy.GetNextBackend, by the dynamic type of s.
GetNextBackend(s, key) ==
  CASE s.kind = "ch"     -> ConsistentHashGetNextBackend(s, key)
    [] s.kind = "rr"     -> RRGetNextBackend(s, key)
    [] s.kind = "static" -> StaticGetNextBackend(s, key)
    [] s.kind = "simple" -> SimpleHashGetNextBackend(s, key)

(***************************************************************************)
(* lb.go: snapshots, diffs, removeBackend.                                 *)
(***************************************************************************)

\* The loop of LB.snapshot from demo key i on: each key is sent through
\* lb.strategy.GetNextBackend, and the result's String() (or "<nil>") is
\* recorded. acc is the sequence of the values recorded so far, r the
\* result of the call for demo key i.
RECURSIVE snapshotLoop(_, _, _), snapshotRecord(_, _, _)
snapshotLoop(s, i, acc) ==
  IF i > Len(demoKeys) THEN [m |-> acc, s |-> s]
  ELSE snapshotRecord(GetNextBackend(s, demoKeys[i]), i, acc)

snapshotRecord(r, i, acc) ==
  snapshotLoop(r.s, i + 1,
    Append(acc, IF r.b # Nil THEN BackendString(r.b) ELSE "<nil>"))

\* LB.snapshot: the map (here the sequence of values, in demoKeys order)
\* and the strategy object as the calls leave it.
snapshot(s) == snapshotLoop(s, 1, <<>>)

\* A nil map[string]string.
NilMap == <<>>

\* A count that leaves out the keys whose after value is "<nil>".
movedToBackend(before, after) ==
  IF before = NilMap THEN 0
  ELSE Cardinality({i \in 1..Len(demoKeys) :
                      before[i] # after[i] /\ after[i] # "<nil>"})

\* LB.printRemap's count: the demo keys whose before and after differ.
\* Nothing is counted for a nil before.
moved(before, after) ==
  IF before = NilMap THEN 0
  ELSE Cardinality({i \in 1..Len(demoKeys) : before[i] # after[i]})

\* A removal that drops the last backend of the list, whichever port is
\* named.
removeLast(bs, port) ==
  IF \A i \in 1..Len(bs) : bs[i] # port THEN [ok |-> FALSE, backends |-> bs]
  ELSE [ok |-> TRUE, backends |-> SubSeq(bs, 1, Len(bs) - 1)]

\* A removal that drops every backend on that port.
removeEvery(bs, port) ==
  IF \A i \in 1..Len(bs) : bs[i] # port THEN [ok |-> FALSE, backends |-> bs]
  ELSE [ok |-> TRUE, backends |-> SelectSeq(bs, LAMBDA b : b # port)]

\* LB.removeBackend: idx is the index of the first backend on that port
\* (host is always "localhost"); false when there is none, else the list
\* without entry idx (append(bs[:idx], bs[idx+1:]...)).
removeBackend(bs, port) ==
  IF \A i \in 1..Len(bs) : bs[i] # port THEN [ok |-> FALSE, backends |-> bs]
  ELSE [ok |-> TRUE,
        backends |->
          [i \in 1..(Len(bs) - 1) |->
             IF \E j \in 1..i : bs[j] = port THEN bs[i + 1] ELSE bs[i]]]

(***************************************************************************)
(* The state.                                                              *)
(*   backends    lb.backends                                               *)
(*   heap        the strategy objects that are still referenced, by        *)
(*               reference                                                 *)
(*   lbStrategy  lb.strategy, a reference into heap                        *)
(*   loop        the control-plane goroutine: "running", "exited" (it      *)
(*               returned on exit) or "panicked" (a payload assertion      *)
(*               failed and the process died)                              *)
(*   logged      what the last step wrote with log.Printf / to the         *)
(*               connection                                                *)
(* and, for the runs that follow the goroutines statement by statement:    *)
(*   events      lb.events, an unbuffered channel: empty, or the one event *)
(*               the REPL goroutine is blocked sending                     *)
(*   sent        the events the REPL has sent so far, in order             *)
(*   received    the events the control-plane loop has received, in order  *)
(*   ctl         the control-plane goroutine: where it is in the handling  *)
(*               of its event, and its locals                              *)
(*   tasks       the proxy goroutines: where each is, and its locals       *)
(*   numRequests Backend.NumRequests of the backend on each port. LB.proxy *)
(*               increments it and nothing reads it; a step that handles a *)
(*               whole connection logs the backend it counted (logged's    *)
(*               field counted), the statement-by-statement runs keep the  *)
(*               count itself                                              *)
(***************************************************************************)
VARIABLES backends, heap, lbStrategy, loop, logged,
          events, sent, received, ctl, tasks, numRequests

vars == <<backends, heap, lbStrategy, loop, logged,
          events, sent, received, ctl, tasks, numRequests>>

\* What a step that handles a whole command or connection at once leaves
\* alone.
stepVars == <<events, sent, received, ctl, tasks, numRequests>>

\* The object lb.strategy refers to.
Strategy == heap[lbStrategy]

\* A reference for a new strategy object: one no live object has.
NewRef(h) == CHOOSE r \in 0..Cardinality(DOMAIN h) : r \notin DOMAIN h

\* dials is the sequence of the backends net.Dial was called for, counted
\* the backend whose NumRequests was incremented (Nil for none).
NoLog ==
  [op |-> "", arg |-> "", what |-> "", before |-> NilMap, after |-> NilMap,
   moved |-> 0, found |-> TRUE, backend |-> Nil, dials |-> <<>>,
   counted |-> Nil]

\* The events of lb.go.
CMD_Exit == "exit"
CMD_BackendAdd == "backend:add"
CMD_BackendRemove == "backend:remove"
CMD_StrategyChange == "strategy:change"
CMD_ShowMapping == "mapping:show"

NoEvent == [EventName |-> "", Data |-> ""]

\* The control-plane goroutine blocked in its select. ev is the event it
\* handles, before its before-snapshot, todo the backends Init's loop has
\* still to insert. old and new are the strategy objects as they are with
\* the event not handled at all and handled completely.
CtlIdle ==
  [pc |-> "idle", ev |-> NoEvent, before |-> NilMap, todo |-> <<>>,
   old |-> ZeroStrategy(""), new |-> ZeroStrategy("")]

\* A proxy goroutine that has not been spawned yet. key is req.key, s the
\* strategy reference it loaded, tmp the local the selection holds between
\* two statements (and the NumRequests it has loaded), b the backend
\* selected. at is the number of events
\* received when it read a round-robin cursor with the control plane idle
\* (-1 otherwise); fit is the set of backends a selection on a complete
\* strategy could have returned to it.
TaskFree ==
  [pc |-> "free", key |-> "", s |-> 0, tmp |-> 0, b |-> Nil, at |-> -1,
   fit |-> {}, out |-> ""]

\* InitLB: four seed backends, a consistent-hash strategy over them.
Init ==
  /\ backends = SeedBackends
  /\ lbStrategy = 0
  /\ heap = (0 :> NewConsistentHashStrategy(SeedBackends))
  /\ loop = "running"
  /\ logged = NoLog
  /\ events = <<>>
  /\ sent = <<>>
  /\ received = <<>>
  /\ ctl = CtlIdle
  /\ tasks = [t \in 1..NumTasks |-> TaskFree]
  /\ numRequests = [p \in Ports |-> 0]

\* What the three mutating cases leave once the before-snapshot `before`
\* and the after-snapshot `after` are taken: the active object as the
\* after-snapshot leaves it, and printRemap's output.
Remapped(op, arg, what, before, after) ==
  /\ heap' = [heap EXCEPT ![lbStrategy] = after.s]
  /\ logged' = [NoLog EXCEPT !.op = op, !.arg = arg, !.what = what,
                  !.before = before.m, !.after = after.m,
                  !.moved = moved(before.m, after.m)]

\* case CMD_BackendAdd, with a Backend payload for localhost:p.
BackendAdded(p, before) ==
  /\ backends' = Append(backends, p)
  /\ Remapped(CMD_BackendAdd, p, "ADD", before,
              snapshot(StrategyInit(before.s, Append(backends, p))))

\* An add that is handled whenever the process is alive.
AddAfterExit(p) ==
  /\ loop # "panicked"
  /\ Len(backends) < MaxBackends
  /\ BackendAdded(p, snapshot(Strategy))
  /\ UNCHANGED <<lbStrategy, loop, stepVars>>

HandleBackendAdd(p) ==
  /\ loop = "running"
  /\ Len(backends) < MaxBackends
  /\ BackendAdded(p, snapshot(Strategy))
  /\ UNCHANGED <<lbStrategy, loop, stepVars>>

\* case CMD_BackendRemove, with an int payload.
BackendRemoved(port, before, rm) ==
  IF rm.ok
    THEN /\ backends' = rm.backends
         /\ Remapped(CMD_BackendRemove, port, "REMOVE", before,
                     snapshot(StrategyInit(before.s, rm.backends)))
    ELSE /\ backends' = backends
         /\ heap' = [heap EXCEPT ![lbStrategy] = before.s]
         /\ logged' = [NoLog EXCEPT !.op = CMD_BackendRemove, !.arg = port,
                         !.found = FALSE]

HandleBackendRemove(port) ==
  /\ loop = "running"
  /\ BackendRemoved(port, snapshot(Strategy), removeBackend(backends, port))
  /\ UNCHANGED <<lbStrategy, loop, stepVars>>

\* A switch whose default is round robin.
StrategyByNameDefaultRR(name, bs) ==
  CASE name \in {"round-robin", "rr"}            -> NewRRBalancingStrategy(bs)
    [] name = "static"                           -> NewStaticBalancingStrategy(bs)
    [] name \in {"simple", "simple-hash"}        -> NewSimpleHashStrategy(bs)
    [] name \in {"ch", "hash", "consistent-hash"} -> NewConsistentHashStrategy(bs)
    [] OTHER                                     -> NewRRBalancingStrategy(bs)

\* The switch on the strategy name of case CMD_StrategyChange.
StrategyByName(name, bs) ==
  CASE name \in {"round-robin", "rr"}            -> NewRRBalancingStrategy(bs)
    [] name = "static"                           -> NewStaticBalancingStrategy(bs)
    [] name \in {"simple", "simple-hash"}        -> NewSimpleHashStrategy(bs)
    [] name \in {"ch", "hash", "consistent-hash"} -> NewConsistentHashStrategy(bs)
    [] OTHER                                     -> NewConsistentHashStrategy(bs)

\* case CMD_StrategyChange, with a string payload. The before-snapshot
\* runs on the old object, which nothing refers to afterwards.
StrategyChanged(name, before, after, ref) ==
  /\ lbStrategy' = ref
  /\ heap' = (ref :> after.s)
  /\ logged' = [NoLog EXCEPT !.op = CMD_StrategyChange, !.arg = name,
                  !.what = "STRATEGY",
                  !.before = before.m, !.after = after.m,
                  !.moved = moved(before.m, after.m)]

HandleStrategyChange(name) ==
  /\ loop = "running"
  /\ StrategyChanged(name, snapshot(Strategy),
                     snapshot(StrategyByName(name, backends)), NewRef(heap))
  /\ UNCHANGED <<backends, loop, stepVars>>

\* case CMD_ShowMapping.
ShownMapping(cur) ==
  /\ heap' = [heap EXCEPT ![lbStrategy] = cur.s]
  /\ logged' = [NoLog EXCEPT !.op = CMD_ShowMapping, !.what = "SHOW",
                  !.after = cur.m]

HandleShowMapping ==
  /\ loop = "running"
  /\ ShownMapping(snapshot(Strategy))
  /\ UNCHANGED <<backends, lbStrategy, loop, stepVars>>

\* case CMD_Exit: the goroutine returns.
HandleExit ==
  /\ loop = "running"
  /\ loop' = "exited"
  /\ logged' = [NoLog EXCEPT !.op = CMD_Exit]
  /\ UNCHANGED <<backends, heap, lbStrategy, stepVars>>

\* A case whose type assertion on event.Data fails: the before-snapshot has
\* run, then panic("invalid ...") ends the process.
Panicked(name, before) ==
  /\ heap' = [heap EXCEPT ![lbStrategy] = before.s]
  /\ logged' = [NoLog EXCEPT !.op = "panic", !.what = name]

HandleMalformed(name) ==
  /\ loop = "running"
  /\ Panicked(name, snapshot(Strategy))
  /\ loop' = "panicked"
  /\ UNCHANGED <<backends, lbStrategy, stepVars>>

\* A proxy that, when the dial fails, selects again and dials the second
\* backend.
ProxiedRetry(key, dialOk, r) ==
  IF r.b # Nil /\ ~dialOk
    THEN /\ heap' = [heap EXCEPT ![lbStrategy] = GetNextBackend(r.s, key).s]
         /\ logged' = [NoLog EXCEPT !.op = "proxy", !.arg = key,
                         !.backend = GetNextBackend(r.s, key).b,
                         !.dials = <<r.b, GetNextBackend(r.s, key).b>>,
                         !.what = "relay"]
    ELSE /\ heap' = [heap EXCEPT ![lbStrategy] = r.s]
         /\ logged' = [NoLog EXCEPT !.op = "proxy", !.arg = key, !.backend = r.b,
                         !.dials = IF r.b = Nil THEN <<>> ELSE <<r.b>>,
                         !.what = IF r.b = Nil THEN "no backend available"
                                  ELSE "relay"]

\* LB.proxy for a connection with routing key `key`; dialOk is whether
\* net.Dial to the chosen backend succeeds, r the result of the selection.
Proxied(key, dialOk, r) ==
  /\ heap' = [heap EXCEPT ![lbStrategy] = r.s]
  /\ logged' = [NoLog EXCEPT !.op = "proxy", !.arg = key, !.backend = r.b,
                  !.dials = IF r.b = Nil THEN <<>> ELSE <<r.b>>,
                  !.counted = IF r.b # Nil /\ dialOk THEN r.b ELSE Nil,
                  !.what = CASE r.b = Nil -> "no backend available"
                             [] r.b # Nil /\ ~dialOk -> "backend not available"
                             [] OTHER -> "relay"]

\* A proxy that drops from lb.backends the backend whose dial failed.
ProxyEvicts(key, dialOk) ==
  /\ loop # "panicked"
  /\ Proxied(key, dialOk, GetNextBackend(Strategy, key))
  /\ backends' = IF GetNextBackend(Strategy, key).b # Nil /\ ~dialOk
                   THEN removeBackend(backends, GetNextBackend(Strategy, key).b).backends
                   ELSE backends
  /\ UNCHANGED <<lbStrategy, loop, stepVars>>

Proxy(key, dialOk) ==
  /\ loop # "panicked"
  /\ Proxied(key, dialOk, GetNextBackend(Strategy, key))
  /\ UNCHANGED <<backends, lbStrategy, loop, stepVars>>

Next ==
  \/ \E p \in AddPorts : HandleBackendAdd(p)
  \/ \E p \in RemovePorts : HandleBackendRemove(p)
  \/ \E name \in StrategyNames : HandleStrategyChange(name)
  \/ HandleShowMapping
  \/ HandleExit
  \/ \E name \in PayloadCmds : HandleMalformed(name)
  \/ \E key \in ConnKeys, dialOk \in BOOLEAN : Proxy(key, dialOk)

Spec == Init /\ [][Next]_vars

(***************************************************************************)
(* Properties of the handlers taken whole.                                 *)
(***************************************************************************)

\* C2: under ConsistentHash, a key whose selection before the removal of
\* backend B was a backend other than B has the same selection after the
\* removal has completed.
C2_RemoveMovesOnlyKeysOfRemoved ==
  [][\A p \in RemovePorts :
       (logged'.op = CMD_BackendRemove /\ Strategy.kind = "ch"
          /\ removeBackend(backends, p).ok /\ HandleBackendRemove(p))
         => \A k \in AllKeys :
              GetNextBackend(Strategy, k).b # p
                => GetNextBackend(Strategy', k).b = GetNextBackend(Strategy, k).b]_vars

\* A removal under ConsistentHash has completed and moved demo keys.
C2_Witness ==
  /\ logged.op = CMD_BackendRemove
  /\ logged.what = "REMOVE"
  /\ Strategy.kind = "ch"
  /\ logged.moved > 0
  /\ Len(backends) >= 3

\* C3: under ConsistentHash, a key selected to X before AddBackend(Y) is
\* selected to X or to Y after the add has completed.
C3_AddMovesKeysOnlyToAdded ==
  [][\A p \in AddPorts :
       (logged'.op = CMD_BackendAdd /\ Strategy.kind = "ch"
          /\ HandleBackendAdd(p))
         => \A k \in AllKeys :
              GetNextBackend(Strategy', k).b \in {GetNextBackend(Strategy, k).b, p}]_vars

\* An add under ConsistentHash has completed, and the key "localhost:8084"
\* is selected to the added backend.
C3_Witness ==
  /\ logged.op = CMD_BackendAdd
  /\ logged.arg = 8085
  /\ Strategy.kind = "ch"
  /\ Len(backends) = 5
  /\ GetNextBackend(Strategy, "localhost:8084").b = 8085

\* C4: with ConsistentHash initialised over a non-empty Topology, the
\* selection for any key is not nil and is a member of the Topology.
C4_RingSelectsMember ==
  (Strategy.kind = "ch" /\ backends # <<>>)
    => \A k \in AllKeys :
         /\ GetNextBackend(Strategy, k).b # Nil
         /\ \E i \in 1..Len(backends) : backends[i] = GetNextBackend(Strategy, k).b

\* A connection was selected to the only backend left, after removals
\* under ConsistentHash.
C4_Witness ==
  /\ logged.op = "proxy"
  /\ Strategy.kind = "ch"
  /\ Len(backends) = 1
  /\ logged.backend = backends[1]

\* C6: computing a snapshot leaves the strategy state as it was, for every
\* strategy; with RoundRobin the cursor is the same after it as before.
C6_SnapshotLeavesStrategy == snapshot(Strategy).s = Strategy

\* ShowMapping has been handled with RoundRobin over five backends.
C6_Witness ==
  /\ logged.op = CMD_ShowMapping
  /\ Strategy.kind = "rr"
  /\ Len(backends) = 5

\* n selections for key k executed one after another from strategy s.
RECURSIVE Selections(_, _, _)
Selections(s, k, n) ==
  IF n = 0 THEN <<>>
  ELSE <<GetNextBackend(s, k)>> \o Selections(GetNextBackend(s, k).s, k, n - 1)

\* The K selections of Selections(s, k, K) return every position of bs
\* once, each the position after the one returned before it, with wrap.
EachOnceInOrder(s, bs, run) ==
  /\ {run[i].s.Index : i \in 1..Len(run)} = 0..(Len(bs) - 1)
  /\ \A i \in 1..Len(run) :
       /\ run[i].b = bs[run[i].s.Index + 1]
       /\ run[i].s.Index =
            ((IF i = 1 THEN s.Index ELSE run[i - 1].s.Index) + 1) % Len(bs)

\* C8: with RoundRobin over K >= 1 backends, K consecutive selections
\* return each backend once, each the successor in Topology order, with
\* wrap-around, of the one the previous selection returned.
C8_RoundRobinVisitsEachOnce ==
  (Strategy.kind = "rr" /\ backends # <<>>)
    => \A k \in ConnKeys :
         EachOnceInOrder(Strategy, backends,
                         Selections(Strategy, k, Len(backends)))

\* A RoundRobin selection has wrapped around to the first of four backends.
C8_Witness ==
  /\ logged.op = "proxy"
  /\ Strategy.kind = "rr"
  /\ Len(backends) = 4
  /\ Strategy.Index = 0
  /\ logged.backend = backends[1]

\* C9: the Topology never holds two backends with the same identity.
C9_NoDuplicateIdentity ==
  \A i, j \in 1..Len(backends) : i # j => backends[i] # backends[j]

\* An add of an identity that is in the Topology has been handled.
C9_Witness ==
  /\ logged.op = CMD_BackendAdd
  /\ \E i \in 1..(Len(backends) - 1) : backends[i] = logged.arg

\* C10: a RemoveBackend of an identity that is not in the Topology leaves
\* the Topology and all state of the active strategy as they were.
C10_RemoveMissingIsNoOp ==
  [][\A p \in RemovePorts :
       (logged'.op = CMD_BackendRemove /\ ~removeBackend(backends, p).ok
          /\ HandleBackendRemove(p))
         => (backends' = backends /\ lbStrategy' = lbStrategy /\ heap' = heap)]_vars

\* A removal of a missing identity has been handled with RoundRobin over
\* five backends.
C10_Witness ==
  /\ logged.op = CMD_BackendRemove
  /\ ~logged.found
  /\ Strategy.kind = "rr"
  /\ Len(backends) = 5

\* C11: a strategy change with a name outside the known names makes
\* ConsistentHash, built over the current Topology, the active strategy;
\* a known name makes the named variant active over the current Topology.
C11_StrategyChangeSelectsVariant ==
  [][\A name \in StrategyNames :
       (logged'.op = CMD_StrategyChange /\ HandleStrategyChange(name))
         => /\ Strategy'.kind =
                 (IF name \in {"rr", "static", "simple"} THEN name ELSE "ch")
            /\ backends' = backends
            /\ IF Strategy'.kind = "ch"
                 THEN /\ Len(Strategy'.backends) = Len(backends)
                      /\ \A i \in 1..Len(backends) :
                           \E j \in 1..Len(backends) :
                             /\ Strategy'.backends[j] = backends[i]
                             /\ Strategy'.keys[j] =
                                  chPos(BackendString(backends[i]), TotalSlots)
                 ELSE Strategy'.Backends = backends]_vars

\* A strategy change with an unknown name has been handled while a
\* different strategy was active over five backends.
C11_Witness ==
  /\ logged.op = CMD_StrategyChange
  /\ logged.arg = "bogus"
  /\ Strategy.kind = "ch"
  /\ Len(backends) = 5
  /\ logged.moved > 0

\* C12: when a strategy change has completed, the cursor or index of the
\* new strategy is 0.
C12_StrategyChangeResetsState ==
  logged.op = CMD_StrategyChange => Strategy.Index = 0

\* A change to RoundRobin has completed over five backends.
C12_Witness ==
  /\ logged.op = CMD_StrategyChange
  /\ logged.arg = "rr"
  /\ Len(backends) = 5

\* C13: over an empty backend list the selection of every strategy returns
\* nil, a snapshot maps every demo key to "<nil>" and a connection is
\* answered "no backend available".
C13_EmptyListSelectsNone ==
  backends = <<>>
    => /\ \A k \in AllKeys : GetNextBackend(Strategy, k).b = Nil
       /\ snapshot(Strategy).m = [i \in 1..Len(demoKeys) |-> "<nil>"]
       /\ logged.op = "proxy" => logged.what = "no backend available"
       /\ \A name \in StrategyNames, k \in AllKeys :
            GetNextBackend(StrategyByName(name, backends), k).b = Nil

\* A connection has been answered after the last backend was removed, with
\* RoundRobin active.
C13_Witness ==
  /\ backends = <<>>
  /\ Strategy.kind = "rr"
  /\ logged.op = "proxy"
  /\ logged.backend = Nil

\* C14: the ConsistentHash lookup of a key returns the backend of the first
\* ring entry whose position is >= the key's position (an entry at that
\* very position is picked), and entry 0 when there is none.
C14_LookupPicksFirstAtOrAfterSlot ==
  (Strategy.kind = "ch" /\ Strategy.keys # <<>>)
    => \A k \in AllKeys :
         GetNextBackend(Strategy, k).b =
           Strategy.backends[
             IF \E i \in 1..Len(Strategy.keys) :
                  LeqU32(chPos(k, TotalSlots), Strategy.keys[i])
               THEN CHOOSE i \in 1..Len(Strategy.keys) :
                      /\ LeqU32(chPos(k, TotalSlots), Strategy.keys[i])
                      /\ \A j \in 1..(i - 1) :
                           ~LeqU32(chPos(k, TotalSlots), Strategy.keys[j])
               ELSE 1]

\* A connection whose key hashes onto the ring position of 8084 has been
\* selected over the seed ring.
C14_Witness ==
  /\ logged.op = "proxy"
  /\ logged.arg = "localhost:8084"
  /\ Strategy.kind = "ch"
  /\ backends = SeedBackends
  /\ logged.backend = 8081

\* The replica count of the ring the specification describes.
Replicas == 64

\* C15: a ring initialised over N backends holds 64 entries per backend.
C15_RingHoldsReplicas ==
  Strategy.kind = "ch" => Len(Strategy.keys) = Replicas * Len(backends)

\* The ring has been rebuilt over five backends by an add.
C15_Witness ==
  /\ logged.op = CMD_BackendAdd
  /\ Strategy.kind = "ch"
  /\ Len(backends) = 5

\* C16: SimpleHash selection changes no state and returns, for every key
\* and every non-empty list, backends[hash(key) mod len(backends)] in
\* Topology order.
C16_SimpleHashIsHashModLen ==
  (Strategy.kind = "simple" /\ backends # <<>>)
    => /\ \A k \in AllKeys :
            /\ GetNextBackend(Strategy, k).b =
                 backends[ModU32(fnv32a[k], Len(backends)) + 1]
            /\ GetNextBackend(Strategy, k).s = Strategy
       /\ snapshot(Strategy).s = Strategy

\* A change to SimpleHash over the seed list has logged the mapping that
\* FNV-1a mod 4 gives the twelve demo keys.
C16_Witness ==
  /\ logged.op = CMD_StrategyChange
  /\ Strategy.kind = "simple"
  /\ backends = SeedBackends
  /\ logged.after =
       <<"localhost:8082", "localhost:8081", "localhost:8084", "localhost:8083",
         "localhost:8082", "localhost:8081", "localhost:8084", "localhost:8083",
         "localhost:8082", "localhost:8084", "localhost:8081", "localhost:8082">>

\* C17: with Static active over a non-empty Topology every selection,
\* whatever the key, returns backends[index], the index being 0.
C17_StaticReturnsFirst ==
  (Strategy.kind = "static" /\ backends # <<>>)
    => /\ Strategy.Index = 0
       /\ \A k \in AllKeys :
            /\ GetNextBackend(Strategy, k).b = backends[Strategy.Index + 1]
            /\ GetNextBackend(Strategy, k).s = Strategy

\* A connection has been selected under Static over five backends.
C17_Witness ==
  /\ logged.op = "proxy"
  /\ logged.arg = "localhost:8084"
  /\ Strategy.kind = "static"
  /\ Len(backends) = 5
  /\ logged.backend = backends[1]

\* C18: a command whose payload is of the wrong type is skipped: the
\* control plane keeps running and Topology and strategy are unchanged.
C18_MalformedPayloadIsSkipped ==
  [][\A name \in PayloadCmds :
       (logged'.op = "panic" /\ HandleMalformed(name))
         => /\ loop' = "running"
            /\ backends' = backends
            /\ lbStrategy' = lbStrategy
            /\ heap' = heap]_vars

\* An add whose payload is not a Backend has been received.
C18_Witness ==
  /\ logged.op = "panic"
  /\ logged.what = CMD_BackendAdd
  /\ loop = "panicked"

\* C19: once Exit has been handled no command is handled any more, and
\* Topology and the strategy reference do not change.
C19_ExitedIsTerminal ==
  [][loop = "exited"
       => /\ loop' = "exited"
          /\ backends' = backends
          /\ lbStrategy' = lbStrategy
          /\ logged'.op = "proxy"]_vars

\* A connection has been proxied after Exit was handled.
C19_Witness ==
  /\ loop = "exited"
  /\ logged.op = "proxy"
  /\ logged.what = "relay"

\* C22: the count of moved keys depends on the two snapshots alone: a key
\* counts iff its two values differ as strings, "<nil>" included, so a
\* snapshot against itself counts 0 and the count is the same in both
\* directions, over the same twelve keys.
C22_DiffIsSymmetric ==
  \A a, b \in {logged.before, logged.after, snapshot(Strategy).m} \ {NilMap} :
    /\ Len(a) = Len(demoKeys) /\ Len(b) = Len(demoKeys)
    /\ moved(a, a) = 0
    /\ moved(a, b) = moved(b, a)
    /\ moved(a, b) = Len(SelectSeq([i \in 1..Len(demoKeys) |-> <<a[i], b[i]>>],
                                   LAMBDA pr : pr[1] # pr[2]))
    /\ (logged.before # NilMap => logged.moved = moved(logged.before, logged.after))

\* The removal of the last backend has been reported: every demo key moved
\* to "<nil>".
C22_Witness ==
  /\ logged.op = CMD_BackendRemove
  /\ logged.what = "REMOVE"
  /\ backends = <<>>
  /\ logged.moved = Len(demoKeys)
  /\ logged.after[1] = "<nil>"

\* C23: under ConsistentHash, after the removal of a backend every key that
\* was selected to it is selected to the backend of the ring entry that
\* followed its entry (with wrap), and no other key's selection changes.
C23_RemovedKeysGoClockwise ==
  [][\A p \in RemovePorts :
       (logged'.op = CMD_BackendRemove /\ Strategy.kind = "ch"
          /\ Len(backends) >= 2 /\ removeBackend(backends, p).ok
          /\ HandleBackendRemove(p))
         => \A k \in AllKeys :
              GetNextBackend(Strategy', k).b =
                IF GetNextBackend(Strategy, k).b = p
                  THEN Strategy.backends[
                         ((CHOOSE i \in 1..Len(Strategy.backends) :
                             /\ Strategy.backends[i] = p
                             /\ \A j \in 1..(i - 1) : Strategy.backends[j] # p)
                          % Len(Strategy.backends)) + 1]
                  ELSE GetNextBackend(Strategy, k).b]_vars

\* Backend 8082 has been removed from the four-backend seed ring, and the
\* demo keys it had are selected to 8084, the next entry.
C23_Witness ==
  /\ logged.op = CMD_BackendRemove
  /\ logged.arg = 8082
  /\ logged.what = "REMOVE"
  /\ Strategy.kind = "ch"
  /\ backends = <<8081, 8083, 8084>>
  /\ logged.before[3] = "localhost:8082"
  /\ logged.after[3] = "localhost:8084"
  /\ logged.moved = 3

\* C24: under SimpleHash and ConsistentHash the selection of a key is
\* decided by the strategy kind and the backend list alone, so it is the
\* same in every state with the same list, whatever selections, shown
\* mappings, failed removals or strategy changes came between; what a live
\* selection or a snapshot has just reported is that selection.
C24_RoutingIsSticky ==
  Strategy.kind \in {"simple", "ch"}
    => /\ \A k \in AllKeys :
            GetNextBackend(Strategy, k).b =
              GetNextBackend(StrategyByName(Strategy.kind, backends), k).b
       /\ logged.op = "proxy"
            => logged.backend = GetNextBackend(Strategy, logged.arg).b
       /\ logged.after # NilMap => logged.after = snapshot(Strategy).m
       /\ snapshot(Strategy).m =
            [i \in 1..Len(demoKeys) |->
               IF GetNextBackend(Strategy, demoKeys[i]).b = Nil THEN "<nil>"
               ELSE BackendString(GetNextBackend(Strategy, demoKeys[i]).b)]

\* A removal of a missing backend has been handled under SimpleHash with the
\* seed list.
C24_Witness ==
  /\ logged.op = CMD_BackendRemove
  /\ ~logged.found
  /\ Strategy.kind = "simple"
  /\ Len(backends) = 4

\* The demo keys whose selection differs between strategy `name` built
\* over the list bs without its last backend and built over bs.
movedByAdd(name, bs) ==
  moved(snapshot(StrategyByName(name, SubSeq(bs, 1, Len(bs) - 1))).m,
        snapshot(StrategyByName(name, bs)).m)

\* C25: for the demo keys and an add that takes the list from N to N+1
\* backends, at least as many keys change their selection under SimpleHash
\* as under ConsistentHash.
C25_SimpleHashMovesNoFewer ==
  logged.op = CMD_BackendAdd
    => movedByAdd("simple", backends) >= movedByAdd("ch", backends)

\* An add from four to five backends has been handled under SimpleHash and
\* has moved most of the demo keys.
C25_Witness ==
  /\ logged.op = CMD_BackendAdd
  /\ Strategy.kind = "simple"
  /\ Len(backends) = 5
  /\ logged.moved >= 8
  /\ movedByAdd("ch", backends) < logged.moved

\* C26: a connection is served by one selection and at most one dial: the
\* strategy is left as one call of GetNextBackend leaves it, only the
\* backend selected is dialed, and a nil selection or a failed dial ends
\* the connection with its message.
C26_OneSelectionOneDial ==
  [][\A key \in ConnKeys, dialOk \in BOOLEAN :
       (logged'.op = "proxy" /\ Proxy(key, dialOk))
         => /\ heap' = [heap EXCEPT ![lbStrategy] = GetNextBackend(Strategy, key).s]
            /\ logged'.backend = GetNextBackend(Strategy, key).b
            /\ Len(logged'.dials) <= 1
            /\ \A i \in 1..Len(logged'.dials) :
                 logged'.dials[i] = GetNextBackend(Strategy, key).b
            /\ logged'.backend = Nil
                 => (logged'.dials = <<>> /\ logged'.what = "no backend available")
            /\ (logged'.backend # Nil /\ ~dialOk)
                 => logged'.what = "backend not available"
            /\ (Strategy.kind = "rr" /\ backends # <<>>)
                 => Strategy'.Index = (Strategy.Index + 1) % Len(backends)]_vars

\* A dial has failed under RoundRobin and the connection was closed.
C26_Witness ==
  /\ logged.op = "proxy"
  /\ logged.what = "backend not available"
  /\ Strategy.kind = "rr"
  /\ Len(logged.dials) = 1
  /\ Len(backends) = 3

\* C30: the ring lookup routes a key to the first entry whose position is
\* strictly greater than the key's position, and to the first entry of the
\* ring when there is none; a key at the position of an entry goes to the
\* entry after it.
C30_LookupPicksFirstAfterSlot ==
  (Strategy.kind = "ch" /\ Strategy.keys # <<>>)
    => \A k \in AllKeys :
         GetNextBackend(Strategy, k).b =
           Strategy.backends[
             IF \E i \in 1..Len(Strategy.keys) :
                  LessU32(chPos(k, TotalSlots), Strategy.keys[i])
               THEN CHOOSE i \in 1..Len(Strategy.keys) :
                      /\ LessU32(chPos(k, TotalSlots), Strategy.keys[i])
                      /\ \A j \in 1..(i - 1) :
                           ~LessU32(chPos(k, TotalSlots), Strategy.keys[j])
               ELSE 1]

\* A connection whose key is at the ring position of 8084 has been selected
\* to 8085, the entry after it.
C30_Witness ==
  /\ logged.op = "proxy"
  /\ logged.arg = "localhost:8084"
  /\ Strategy.kind = "ch"
  /\ backends = <<8081, 8082, 8083, 8084, 8085>>
  /\ logged.backend = 8085

\* C31: right after a strategy change to round robin has completed over K
\* backends, the first K live selections return the backends of
\* lb.backends in their order, the first backend first.
C31_RotationStartsAtFirstBackend ==
  (logged.op = CMD_StrategyChange /\ Strategy.kind = "rr" /\ backends # <<>>)
    => [i \in 1..Len(backends) |->
          Selections(Strategy, "10.0.0.1", Len(backends))[i].b] = backends

\* The change to round robin has completed over the seed list with the
\* cursor at 0, and the next selection returns 8082.
C31_Witness ==
  /\ logged.op = CMD_StrategyChange
  /\ Strategy.kind = "rr"
  /\ backends = SeedBackends
  /\ Strategy.Index = 0
  /\ GetNextBackend(Strategy, "10.0.0.1").b = 8082

\* C32: lb.backends is a sequence in add order: an add puts its backend at
\* the end and leaves the rest as it is; a removal that finds its port
\* takes out the first entry on that port and no other, so the list is
\* one shorter and the other backends keep their order; no other command
\* changes the list.
C32_TopologyKeepsAddOrder ==
  [][/\ logged'.op = CMD_BackendAdd
          => /\ Len(backends') = Len(backends) + 1
             /\ backends'[Len(backends')] = logged'.arg
             /\ SubSeq(backends', 1, Len(backends)) = backends
     /\ (logged'.op = CMD_BackendRemove /\ logged'.what = "REMOVE")
          => /\ Len(backends') = Len(backends) - 1
             /\ \E i \in 1..Len(backends) :
                  /\ backends[i] = logged'.arg
                  /\ \A j \in 1..(i - 1) : backends[j] # logged'.arg
                  /\ backends' = SubSeq(backends, 1, i - 1)
                                   \o SubSeq(backends, i + 1, Len(backends))
     /\ (logged'.op = CMD_BackendRemove /\ logged'.what # "REMOVE")
          => /\ backends' = backends
             /\ \A i \in 1..Len(backends) : backends[i] # logged'.arg
     /\ logged'.op \notin {CMD_BackendAdd, CMD_BackendRemove}
          => backends' = backends]_vars

\* One of the two backends on port 8084 has been removed: the one added
\* last is still at the end of the list.
C32_Witness ==
  /\ logged.op = CMD_BackendRemove
  /\ logged.arg = 8084
  /\ logged.what = "REMOVE"
  /\ backends = <<8081, 8082, 8083, 8084>>

\* C33: a step of LB.proxy leaves lb.backends and lb.strategy as they
\* are, whatever the strategy and whatever the outcome (relayed, no
\* backend, failed dial); the object lb.strategy refers to keeps its type
\* and its backends.
C33_ProxyLeavesTopologyAndStrategy ==
  [][logged'.op = "proxy"
       => /\ backends' = backends
          /\ lbStrategy' = lbStrategy
          /\ DOMAIN heap' = DOMAIN heap
          /\ Strategy'.kind = Strategy.kind
          /\ Strategy'.Backends = Strategy.Backends
          /\ Strategy'.backends = Strategy.backends
          /\ Strategy'.keys = Strategy.keys]_vars

\* A dial has failed under Static with five backends listed.
C33_Witness ==
  /\ logged.op = "proxy"
  /\ logged.what = "backend not available"
  /\ Strategy.kind = "static"
  /\ Len(backends) = 5

\* The accept loop of LB.Run never ends: a connection that arrives is
\* accepted and handed to LB.proxy, so while clients keep connecting,
\* connections keep being proxied.
ProxyStep == \E key \in ConnKeys, dialOk \in BOOLEAN : Proxy(key, dialOk)

LiveSpec == Init /\ [][Next]_vars /\ WF_vars(ProxyStep)

\* C20: if Exit is handled, then from some point on no connection is
\* proxied any more.
C20_AcceptLoopStopsAfterExit ==
  <>(loop = "exited") => <>[][~ProxyStep]_vars

\* A connection has been relayed to a backend with the control plane
\* exited.
C20_Witness ==
  /\ loop = "exited"
  /\ logged.op = "proxy"
  /\ logged.what = "relay"
  /\ logged.backend # Nil
  /\ Strategy.kind = "rr"

(***************************************************************************)
(* A strategy object on its own: the methods of BalancingStrategy called   *)
(* one at a time on one object, as a caller other than LB.Run may call     *)
(* them (RegisterBackend is called by nothing in lb.go). The object is     *)
(* heap[lbStrategy]; backends is the slice last handed to Init.            *)
(***************************************************************************)

\* The longest slice handed to a constructor or to Init; RegisterBackend
\* grows the object's list up to MaxBackends.
MaxInitLen == 2

\* The backends of the calls: 8082's ring position lies after 8083's, so
\* port order and ring order differ.
UnitPorts == {8081, 8082, 8083}

UnitLists == UNION {[1..n -> UnitPorts] : n \in 0..MaxInitLen}

UnitKinds == {"rr", "static", "simple", "ch"}

UnitKeys == {"10.0.0.1", "10.0.0.2"}

\* The number of backends the object holds.
UnitLen(s) == IF s.kind = "ch" THEN Len(s.backends) ELSE Len(s.Backends)

\* One of the four constructors, over a slice.
UnitInit ==
  /\ \E kind \in UnitKinds, bs \in UnitLists :
       /\ backends = bs
       /\ heap = (0 :> StrategyByName(kind, bs))
  /\ lbStrategy = 0
  /\ loop = "running"
  /\ logged = NoLog
  /\ events = <<>>
  /\ sent = <<>>
  /\ received = <<>>
  /\ ctl = CtlIdle
  /\ tasks = [t \in 1..NumTasks |-> TaskFree]
  /\ numRequests = [p \in Ports |-> 0]

\* s.Init(bs).
CallInit(bs) ==
  /\ backends' = bs
  /\ heap' = [heap EXCEPT ![lbStrategy] = StrategyInit(Strategy, bs)]
  /\ logged' = [NoLog EXCEPT !.op = "Init"]
  /\ UNCHANGED <<lbStrategy, loop, stepVars>>

\* s.RegisterBackend(b).
CallRegisterBackend(b) ==
  /\ UnitLen(Strategy) < MaxBackends
  /\ heap' = [heap EXCEPT ![lbStrategy] = RegisterBackend(Strategy, b)]
  /\ logged' = [NoLog EXCEPT !.op = "RegisterBackend", !.arg = b]
  /\ UNCHANGED <<backends, lbStrategy, loop, stepVars>>

\* s.GetNextBackend(IncomingReq{key: key}).
CallSelected(key, r) ==
  /\ heap' = [heap EXCEPT ![lbStrategy] = r.s]
  /\ logged' = [NoLog EXCEPT !.op = "GetNextBackend", !.arg = key,
                  !.backend = r.b]
  /\ UNCHANGED <<backends, lbStrategy, loop, stepVars>>

CallGetNextBackend(key) == CallSelected(key, GetNextBackend(Strategy, key))

UnitNext ==
  \/ \E bs \in UnitLists : CallInit(bs)
  \/ \E b \in UnitPorts : CallRegisterBackend(b)
  \/ \E key \in UnitKeys : CallGetNextBackend(key)

UnitSpec == UnitInit /\ [][UnitNext]_vars

\* C27: after any sequence of Init and RegisterBackend calls on a
\* ConsistentHashStrategy, keys is sorted in ascending order, keys and
\* backends have the same length, and keys[i] is the hash position of the
\* identity of backends[i].
C27_RingSortedAndParallel ==
  Strategy.kind = "ch"
    => /\ Len(Strategy.keys) = Len(Strategy.backends)
       /\ \A i \in 1..(Len(Strategy.keys) - 1) :
            LeqU32(Strategy.keys[i], Strategy.keys[i + 1])
       /\ \A i \in 1..Len(Strategy.keys) :
            Strategy.keys[i] =
              chPos(BackendString(Strategy.backends[i]), Strategy.totalSlots)

\* RegisterBackend has put a backend into a ring that had it already, in
\* the middle of the ring: two equal keys are neighbours, with an entry
\* before and an entry after them.
C27_Witness ==
  /\ Strategy.kind = "ch"
  /\ logged.op = "RegisterBackend"
  /\ logged.arg = 8083
  /\ Strategy.backends = <<8081, 8083, 8083, 8082>>

\* C29: after any sequence of Init and selection calls on a
\* RRBalancingStrategy, with a non-empty list the cursor is in
\* [0, len(Backends)), and a selection sets the cursor to (cursor + 1) mod
\* len(Backends) and returns the backend at the new cursor.
C29_CursorInRangeAndAdvances ==
  (Strategy.kind = "rr" /\ Strategy.Backends # <<>>)
    => /\ Strategy.Index \in 0..(Len(Strategy.Backends) - 1)
       /\ \A key \in UnitKeys :
            /\ GetNextBackend(Strategy, key).s =
                 [Strategy EXCEPT !.Index = (@ + 1) % Len(Strategy.Backends)]
            /\ GetNextBackend(Strategy, key).b =
                 Strategy.Backends[((Strategy.Index + 1) % Len(Strategy.Backends)) + 1]
       /\ logged.op = "GetNextBackend"
            => logged.backend = Strategy.Backends[Strategy.Index + 1]

\* A selection has wrapped the cursor to 0 on a list of three backends.
C29_Witness ==
  /\ Strategy.kind = "rr"
  /\ logged.op = "GetNextBackend"
  /\ Len(Strategy.Backends) = 3
  /\ Strategy.Index = 0
  /\ logged.backend = Strategy.Backends[1]

(***************************************************************************)
(* The same program statement by statement: the REPL goroutine sends on    *)
(* the unbuffered lb.events, the control-plane goroutine handles one event *)
(* in several steps, and every connection is a goroutine of its own that   *)
(* runs LB.proxy in several steps. No lock or atomic orders the steps of   *)
(* two goroutines. A step is one statement or one slice/field access; a    *)
(* whole snapshot (twelve calls made by the control-plane goroutine) is    *)
(* one step.                                                               *)
(***************************************************************************)

\* The events the operator sends in these runs.
SentEvents ==
  { [EventName |-> CMD_BackendAdd, Data |-> 8085],
    [EventName |-> CMD_BackendRemove, Data |-> 8082],
    [EventName |-> CMD_BackendRemove, Data |-> 8086],
    [EventName |-> CMD_StrategyChange, Data |-> "rr"],
    [EventName |-> CMD_StrategyChange, Data |-> "simple"],
    [EventName |-> CMD_ShowMapping, Data |-> ""],
    [EventName |-> CMD_Exit, Data |-> ""] }

\* The routing keys of the connections of these runs.
TaskKeys == {"10.0.0.3"}

InCall(task) == task.pc \in {"check", "search", "read", "write", "index"}

\* The strategy objects still referenced: by lb.strategy or by a call in
\* progress.
Collect(h, active, ts) ==
  [r \in {active} \cup {ts[t].s : t \in {u \in DOMAIN ts : InCall(ts[u])}} |-> h[r]]

Range(seq) == {seq[i] : i \in 1..Len(seq)}

\* The backends a selection for `key` on the complete strategy object s can
\* return: for round robin any of its backends, for the others the one
\* GetNextBackend computes.
Fit(s, key) ==
  IF s.kind = "rr"
    THEN (IF s.Backends = <<>> THEN {Nil} ELSE Range(s.Backends))
    ELSE {GetNextBackend(s, key).b}

\* The strategy object event e leaves when it is handled completely from
\* strategy object s and backend list bs.
Handled(e, s, bs) ==
  CASE e.EventName = CMD_BackendAdd -> StrategyInit(s, Append(bs, e.Data))
    [] e.EventName = CMD_BackendRemove ->
         IF removeBackend(bs, e.Data).ok
           THEN StrategyInit(s, removeBackend(bs, e.Data).backends)
           ELSE s
    [] e.EventName = CMD_StrategyChange -> StrategyByName(e.Data, bs)
    [] OTHER -> s

\* A send on a channel that holds two events and hands out the newest
\* first.
ReplSendFront(e) ==
  /\ loop # "panicked"
  /\ Len(events) < 2
  /\ Len(sent) < MaxCmds
  /\ \A i \in 1..Len(sent) : sent[i].EventName # CMD_Exit
  /\ events' = <<e>> \o events
  /\ sent' = Append(sent, e)
  /\ UNCHANGED <<backends, heap, lbStrategy, loop, logged, received, ctl, tasks, numRequests>>

\* The REPL goroutine: lb.events <- Event{...}. It blocks until the loop
\* receives, so at most one event is in the channel.
ReplSend(e) ==
  /\ loop # "panicked"
  /\ events = <<>>
  /\ Len(sent) < MaxCmds
  /\ \A i \in 1..Len(sent) : sent[i].EventName # CMD_Exit
  /\ events' = <<e>>
  /\ sent' = Append(sent, e)
  /\ UNCHANGED <<backends, heap, lbStrategy, loop, logged, received, ctl, tasks, numRequests>>

\* case event := <-lb.events.
CtlReceive ==
  /\ loop = "running"
  /\ ctl.pc = "idle"
  /\ events # <<>>
  /\ events' = Tail(events)
  /\ received' = Append(received, events[1])
  /\ ctl' = [CtlIdle EXCEPT
               !.ev = events[1],
               !.pc = CASE events[1].EventName = CMD_Exit -> "exit"
                        [] events[1].EventName = CMD_ShowMapping -> "show"
                        [] OTHER -> "before",
               !.old = Strategy,
               !.new = Handled(events[1], Strategy, backends)]
  /\ tasks' = [t \in DOMAIN tasks |->
                 IF InCall(tasks[t])
                   THEN [tasks[t] EXCEPT
                           !.fit = @ \cup Fit(Handled(events[1], Strategy, backends),
                                              tasks[t].key)]
                   ELSE tasks[t]]
  /\ UNCHANGED <<backends, heap, lbStrategy, loop, logged, sent, numRequests>>

\* before := lb.snapshot(), the first statement of the add, remove and
\* strategy-change cases.
CtlBeforeDone(before) ==
  /\ heap' = [heap EXCEPT ![lbStrategy] = before.s]
  /\ ctl' = [ctl EXCEPT
               !.before = before.m,
               !.pc = CASE ctl.ev.EventName = CMD_BackendAdd -> "append"
                        [] ctl.ev.EventName = CMD_BackendRemove -> "remove"
                        [] ctl.ev.EventName = CMD_StrategyChange -> "swap"]

CtlBefore ==
  /\ loop = "running"
  /\ ctl.pc = "before"
  /\ CtlBeforeDone(snapshot(Strategy))
  /\ UNCHANGED <<backends, lbStrategy, loop, logged, events, sent, received, tasks, numRequests>>

\* lb.backends = append(lb.backends, &backend).
CtlAppend ==
  /\ loop = "running"
  /\ ctl.pc = "append"
  /\ Len(backends) < MaxBackends
  /\ backends' = Append(backends, ctl.ev.Data)
  /\ ctl' = [ctl EXCEPT !.pc = "init"]
  /\ UNCHANGED <<heap, lbStrategy, loop, logged, events, sent, received, tasks, numRequests>>

\* lb.removeBackend("localhost", port). The removal shifts the tail of the
\* array in place: a strategy whose Backends slice is lb.backends' array
\* (every strategy but the ring, since its last Init) sees its old length
\* over the shifted array, the last element twice.
CtlRemoveDone(rm) ==
  IF rm.ok
    THEN /\ backends' = rm.backends
         /\ heap' = [r \in DOMAIN heap |->
                       IF heap[r].kind # "ch" /\ heap[r].Backends = backends
                         THEN [heap[r] EXCEPT !.Backends =
                                 rm.backends \o <<backends[Len(backends)]>>]
                         ELSE heap[r]]
         /\ ctl' = [ctl EXCEPT !.pc = "init"]
         /\ UNCHANGED logged
    ELSE /\ ctl' = CtlIdle
         /\ logged' = [NoLog EXCEPT !.op = CMD_BackendRemove, !.arg = ctl.ev.Data,
                         !.found = FALSE]
         /\ UNCHANGED <<backends, heap>>

CtlRemove ==
  /\ loop = "running"
  /\ ctl.pc = "remove"
  /\ CtlRemoveDone(removeBackend(backends, ctl.ev.Data))
  /\ UNCHANGED <<lbStrategy, loop, events, sent, received, tasks, numRequests>>

\* A case that goes on to its after-snapshot without the call of Init.
CtlInitSkipped ==
  /\ loop = "running"
  /\ ctl.pc = "init"
  /\ ctl' = [ctl EXCEPT !.pc = "after"]
  /\ UNCHANGED <<backends, heap, lbStrategy, loop, logged, events, sent, received, tasks, numRequests>>

\* lb.strategy.Init(lb.backends). The ring's Init first truncates keys and
\* backends and then inserts backend after backend; the others assign.
CtlInit ==
  /\ loop = "running"
  /\ ctl.pc = "init"
  /\ IF Strategy.kind = "ch"
       THEN /\ heap' = [heap EXCEPT ![lbStrategy].keys = <<>>,
                                    ![lbStrategy].backends = <<>>]
            /\ ctl' = [ctl EXCEPT !.todo = backends,
                                  !.pc = IF backends = <<>> THEN "after" ELSE "insert"]
       ELSE /\ heap' = [heap EXCEPT ![lbStrategy] = StrategyInit(@, backends)]
            /\ ctl' = [ctl EXCEPT !.pc = "after"]
  /\ UNCHANGED <<backends, lbStrategy, loop, logged, events, sent, received, tasks, numRequests>>

\* One turn of the loop of ConsistentHashStrategy.Init.
CtlInsert ==
  /\ loop = "running"
  /\ ctl.pc = "insert"
  /\ heap' = [heap EXCEPT ![lbStrategy] =
                insert(@, chPos(BackendString(Head(ctl.todo)), @.totalSlots),
                       Head(ctl.todo))]
  /\ ctl' = [ctl EXCEPT !.todo = Tail(@),
                        !.pc = IF Tail(ctl.todo) = <<>> THEN "after" ELSE "insert"]
  /\ UNCHANGED <<backends, lbStrategy, loop, logged, events, sent, received, tasks, numRequests>>

\* lb.strategy = New...Strategy(lb.backends): the object is built, then the
\* reference is stored.
CtlSwapDone(ref) ==
  /\ lbStrategy' = ref
  /\ heap' = Collect((ref :> StrategyByName(ctl.ev.Data, backends)) @@ heap, ref, tasks)

CtlSwap ==
  /\ loop = "running"
  /\ ctl.pc = "swap"
  /\ CtlSwapDone(NewRef(heap))
  /\ ctl' = [ctl EXCEPT !.pc = "after"]
  /\ UNCHANGED <<backends, loop, logged, events, sent, received, tasks, numRequests>>

\* A report that diffs the after-snapshot against itself.
CtlAfterSelfDiff(after) ==
  /\ heap' = [heap EXCEPT ![lbStrategy] = after.s]
  /\ logged' = [NoLog EXCEPT
                  !.op = ctl.ev.EventName, !.arg = ctl.ev.Data,
                  !.what = CASE ctl.ev.EventName = CMD_BackendAdd -> "ADD"
                             [] ctl.ev.EventName = CMD_BackendRemove -> "REMOVE"
                             [] ctl.ev.EventName = CMD_StrategyChange -> "STRATEGY",
                  !.before = after.m, !.after = after.m,
                  !.moved = moved(after.m, after.m)]

\* lb.printRemap(what, before, lb.snapshot()), the last statement of the
\* add, remove and strategy-change cases.
CtlAfterDone(after) ==
  /\ heap' = [heap EXCEPT ![lbStrategy] = after.s]
  /\ logged' = [NoLog EXCEPT
                  !.op = ctl.ev.EventName, !.arg = ctl.ev.Data,
                  !.what = CASE ctl.ev.EventName = CMD_BackendAdd -> "ADD"
                             [] ctl.ev.EventName = CMD_BackendRemove -> "REMOVE"
                             [] ctl.ev.EventName = CMD_StrategyChange -> "STRATEGY",
                  !.before = ctl.before, !.after = after.m,
                  !.moved = moved(ctl.before, after.m)]

CtlAfter ==
  /\ loop = "running"
  /\ ctl.pc = "after"
  /\ CtlAfterDone(snapshot(Strategy))
  /\ ctl' = CtlIdle
  /\ UNCHANGED <<backends, lbStrategy, loop, events, sent, received, tasks, numRequests>>

\* case CMD_ShowMapping.
CtlShow ==
  /\ loop = "running"
  /\ ctl.pc = "show"
  /\ ShownMapping(snapshot(Strategy))
  /\ ctl' = CtlIdle
  /\ UNCHANGED <<backends, lbStrategy, loop, events, sent, received, tasks, numRequests>>

\* case CMD_Exit.
CtlExit ==
  /\ loop = "running"
  /\ ctl.pc = "exit"
  /\ loop' = "exited"
  /\ logged' = [NoLog EXCEPT !.op = CMD_Exit]
  /\ ctl' = CtlIdle
  /\ UNCHANGED <<backends, heap, lbStrategy, events, sent, received, tasks, numRequests>>

CtlStep ==
  \/ CtlReceive
  \/ CtlBefore
  \/ CtlAppend
  \/ CtlRemove
  \/ CtlInit
  \/ CtlInsert
  \/ CtlSwap
  \/ CtlAfter
  \/ CtlShow
  \/ CtlExit

\* go lb.proxy(req), up to the read of lb.strategy that the call
\* lb.strategy.GetNextBackend(req) starts with.
TaskLoad(t, key) ==
  /\ loop # "panicked"
  /\ tasks[t].pc = "free"
  /\ \A u \in 1..(t - 1) : tasks[u].pc # "free"
  /\ tasks' = [tasks EXCEPT ![t] =
                 [TaskFree EXCEPT
                    !.pc = "check", !.key = key, !.s = lbStrategy,
                    !.fit = IF ctl.pc = "idle" THEN Fit(Strategy, key)
                            ELSE Fit(ctl.old, key) \cup Fit(ctl.new, key)]]
  /\ UNCHANGED <<backends, heap, lbStrategy, loop, logged, events, sent, received, ctl, numRequests>>

\* The length test every GetNextBackend starts with; SimpleHash computes
\* its index from the length it read here.
TaskChecked(t, s) ==
  tasks' = [tasks EXCEPT ![t] =
    CASE s.kind = "ch" ->
           IF Len(s.backends) = 0 THEN [@ EXCEPT !.pc = "dial", !.b = Nil]
           ELSE [@ EXCEPT !.pc = "search"]
      [] s.kind = "simple" ->
           IF Len(s.Backends) = 0 THEN [@ EXCEPT !.pc = "dial", !.b = Nil]
           ELSE [@ EXCEPT !.pc = "index",
                          !.tmp = ModU32(fnv32a[tasks[t].key], Len(s.Backends))]
      [] s.kind = "rr" ->
           IF Len(s.Backends) = 0 THEN [@ EXCEPT !.pc = "dial", !.b = Nil]
           ELSE [@ EXCEPT !.pc = "read"]
      [] OTHER ->
           IF Len(s.Backends) = 0 THEN [@ EXCEPT !.pc = "dial", !.b = Nil]
           ELSE [@ EXCEPT !.pc = "index"]]

TaskCheck(t) ==
  /\ loop # "panicked"
  /\ tasks[t].pc = "check"
  /\ TaskChecked(t, heap[tasks[t].s])
  /\ UNCHANGED <<backends, heap, lbStrategy, loop, logged, events, sent, received, ctl, numRequests>>

\* i := sort.Search(len(s.keys), ...) of the ring's GetNextBackend.
TaskSearch(t) ==
  /\ loop # "panicked"
  /\ tasks[t].pc = "search"
  /\ tasks' = [tasks EXCEPT ![t] =
                 [@ EXCEPT !.pc = "index",
                           !.tmp = RingSearch(heap[tasks[t].s].keys,
                                              chPos(tasks[t].key,
                                                    heap[tasks[t].s].totalSlots))]]
  /\ UNCHANGED <<backends, heap, lbStrategy, loop, logged, events, sent, received, ctl, numRequests>>

\* The right-hand side of s.Index = (s.Index + 1) % len(s.Backends).
TaskRead(t) ==
  /\ loop # "panicked"
  /\ tasks[t].pc = "read"
  /\ IF Len(heap[tasks[t].s].Backends) = 0
       THEN /\ loop' = "panicked"
            /\ UNCHANGED tasks
       ELSE /\ tasks' = [tasks EXCEPT ![t] =
                 [@ EXCEPT !.pc = "write",
                           !.tmp = RRAdvance(heap[tasks[t].s]).Index,
                           !.at = IF ctl.pc = "idle" THEN Len(received) ELSE -1]]
            /\ UNCHANGED loop
  /\ UNCHANGED <<backends, heap, lbStrategy, logged, events, sent, received, ctl, numRequests>>

\* The store of s.Index = (s.Index + 1) % len(s.Backends).
TaskWrite(t) ==
  /\ loop # "panicked"
  /\ tasks[t].pc = "write"
  /\ heap' = [heap EXCEPT ![tasks[t].s].Index = tasks[t].tmp]
  /\ tasks' = [tasks EXCEPT ![t].pc = "index"]
  /\ UNCHANGED <<backends, lbStrategy, loop, logged, events, sent, received, ctl, numRequests>>

\* The position the return statement of GetNextBackend indexes, from 0.
ReturnIndex(s, tmp) ==
  CASE s.kind = "ch" -> tmp % Len(s.backends)
    [] s.kind = "simple" -> tmp
    [] OTHER -> s.Index

\* The return statement: s.backends[i%len(s.backends)] for the ring,
\* s.Backends[idx] or s.Backends[s.Index] for the others. A zero divisor
\* and an index out of range panic, which ends the process.
TaskReturned(t, s, view) ==
  IF view = <<>> \/ ReturnIndex(s, tasks[t].tmp) >= Len(view)
    THEN /\ loop' = "panicked"
         /\ UNCHANGED tasks
    ELSE /\ tasks' = [tasks EXCEPT ![t] =
                        [@ EXCEPT !.pc = "dial",
                                  !.b = view[ReturnIndex(s, tasks[t].tmp) + 1]]]
         /\ UNCHANGED loop

TaskIndex(t) ==
  /\ loop # "panicked"
  /\ tasks[t].pc = "index"
  /\ TaskReturned(t, heap[tasks[t].s],
                  IF heap[tasks[t].s].kind = "ch" THEN heap[tasks[t].s].backends
                  ELSE heap[tasks[t].s].Backends)
  /\ UNCHANGED <<backends, heap, lbStrategy, logged, events, sent, received, ctl, numRequests>>

\* The nil test and net.Dial of LB.proxy. The strategy object is not
\* referenced by the call any more. A connection whose dial succeeded goes
\* on to backend.NumRequests++.
TaskDial(t, dialOk) ==
  /\ loop # "panicked"
  /\ tasks[t].pc = "dial"
  /\ tasks' = [tasks EXCEPT ![t] =
                 [@ EXCEPT !.pc = IF tasks[t].b # Nil /\ dialOk THEN "count"
                                  ELSE "done",
                           !.out = CASE tasks[t].b = Nil -> "no backend available"
                                     [] tasks[t].b # Nil /\ ~dialOk -> "backend not available"
                                     [] OTHER -> "relay"]]
  /\ heap' = Collect(heap, lbStrategy, tasks')
  /\ UNCHANGED <<backends, lbStrategy, loop, logged, events, sent, received, ctl, numRequests>>

\* backend.NumRequests++ is a load, an add and a store of a plain int
\* field, with no lock or atomic: the load.
TaskCount(t) ==
  /\ loop # "panicked"
  /\ tasks[t].pc = "count"
  /\ tasks' = [tasks EXCEPT ![t] = [@ EXCEPT !.pc = "store",
                                              !.tmp = numRequests[tasks[t].b]]]
  /\ UNCHANGED <<backends, heap, lbStrategy, loop, logged, events, sent, received, ctl, numRequests>>

\* The store of backend.NumRequests++.
TaskStore(t) ==
  /\ loop # "panicked"
  /\ tasks[t].pc = "store"
  /\ numRequests' = [numRequests EXCEPT ![tasks[t].b] = tasks[t].tmp + 1]
  /\ tasks' = [tasks EXCEPT ![t].pc = "done"]
  /\ UNCHANGED <<backends, heap, lbStrategy, loop, logged, events, sent, received, ctl>>

TaskStep(t) ==
  \/ \E key \in TaskKeys : TaskLoad(t, key)
  \/ TaskCheck(t)
  \/ TaskSearch(t)
  \/ TaskRead(t)
  \/ TaskWrite(t)
  \/ TaskIndex(t)
  \/ \E dialOk \in BOOLEAN : TaskDial(t, dialOk)
  \/ TaskCount(t)
  \/ TaskStore(t)

ConcNext ==
  \/ \E e \in SentEvents : ReplSend(e)
  \/ CtlStep
  \/ \E t \in 1..NumTasks : TaskStep(t)

ConcSpec == Init /\ [][ConcNext]_vars

(***************************************************************************)
(* Properties of the goroutines running together.                          *)
(***************************************************************************)

\* C1: a selection that runs while the control plane handles an add, a
\* removal or a strategy change sees the complete strategy and topology of
\* before the command or of after it: it returns what a selection on one
\* of the two returns, and it does not fail on a ring that is emptied or
\* partly rebuilt or on a list that is shifted and not yet re-initialised.
C1_SelectionSeesCompleteStrategy ==
  /\ loop # "panicked"
  /\ \A t \in 1..NumTasks :
       tasks[t].pc \in {"dial", "done"} => tasks[t].b \in tasks[t].fit

\* A selection has returned while Init was inserting into the ring.
C1_Witness ==
  \E t \in 1..NumTasks :
    /\ tasks[t].pc = "dial"
    /\ ctl.pc = "insert"
    /\ ctl.ev.EventName = CMD_BackendAdd
    /\ Len(ctl.todo) < Len(backends)

\* C5: Topology and the strategy reference change only in a step of the
\* control-plane loop that handles the command it received last, and only
\* as that command's kind allows; the loop receives a command only when it
\* has finished the one before, and it receives them in the order sent.
C5_CommandsOneAtATimeInOrder ==
  [][/\ (backends' # backends \/ lbStrategy' # lbStrategy)
          => /\ ctl.pc # "idle"
             /\ ctl.ev = received[Len(received)]
             /\ received' = received
             /\ tasks' = tasks
     /\ backends' # backends
          => ctl.ev.EventName \in {CMD_BackendAdd, CMD_BackendRemove}
     /\ lbStrategy' # lbStrategy
          => ctl.ev.EventName = CMD_StrategyChange
     /\ received' # received
          => /\ ctl.pc = "idle"
             /\ ctl'.pc # "idle"
             /\ Len(received) < Len(sent)
             /\ received' = SubSeq(sent, 1, Len(received) + 1)]_vars

\* Two commands that change the Topology have been handled one after the
\* other.
C5_Witness ==
  /\ ctl.pc = "idle"
  /\ Len(received) = 2
  /\ received[1].EventName = CMD_BackendAdd
  /\ received[2].EventName = CMD_BackendRemove
  /\ backends = <<8081, 8083, 8084, 8085>>
  /\ logged.op = CMD_BackendRemove

\* C7: two RoundRobin selections that run together on one strategy object,
\* with the control plane idle, do not read the same cursor value before
\* advancing it.
C7_RoundRobinCallsAtomic ==
  \A t1, t2 \in 1..NumTasks :
    (/\ t1 # t2
     /\ tasks[t1].pc \in {"write", "index"}
     /\ tasks[t2].pc \in {"write", "index"}
     /\ tasks[t1].s = tasks[t2].s
     /\ heap[tasks[t1].s].kind = "rr"
     /\ Len(heap[tasks[t1].s].Backends) >= 2
     /\ ctl.pc = "idle"
     /\ tasks[t1].at = Len(received)
     /\ tasks[t2].at = Len(received))
      => tasks[t1].tmp # tasks[t2].tmp

\* Two selections are between the read and the store of the cursor of one
\* RoundRobin object.
C7_Witness ==
  /\ tasks[1].pc = "write"
  /\ tasks[2].pc = "write"
  /\ tasks[1].s = tasks[2].s
  /\ ctl.pc = "idle"
  /\ tasks[1].at = tasks[2].at

\* The backends a strategy object holds: the ring's two slices, or the
\* list of the others.
View(s) == IF s.kind = "ch" THEN <<s.keys, s.backends>> ELSE <<s.Backends>>

\* C21: an add, a removal or a strategy change takes its before-snapshot
\* as its first step, with lb.backends, lb.strategy and the backends the
\* strategy holds as they were when the command was received; these change
\* only in the command's own steps between its two snapshots, and no
\* command is received meanwhile; the after-snapshot is taken on the
\* strategy re-initialised over the new list, and the command reports the
\* diff of exactly these two snapshots.
C21_SnapshotsBracketTheMutation ==
  [][/\ received' # received
          => /\ backends' = backends /\ heap' = heap /\ lbStrategy' = lbStrategy
             /\ ctl.pc = "idle"
             /\ ctl'.ev.EventName \in {CMD_BackendAdd, CMD_BackendRemove, CMD_StrategyChange}
                  => ctl'.pc = "before"
     /\ ctl.pc = "before"
          => /\ backends' = backends /\ lbStrategy' = lbStrategy
             /\ received' = received
             /\ View(heap'[lbStrategy]) = View(Strategy)
             /\ ctl' # ctl
                  => /\ ctl'.before = snapshot(Strategy).m
                     /\ ctl'.pc \in {"append", "remove", "swap"}
     /\ (\/ backends' # backends
         \/ lbStrategy' # lbStrategy
         \/ View(heap'[lbStrategy']) # View(Strategy))
          => /\ ctl.pc \in {"append", "remove", "init", "insert", "swap"}
             /\ ctl' # ctl
     /\ ctl.pc \in {"append", "remove", "init", "insert", "swap", "after"}
          => /\ received' = received
             /\ ctl'.ev = ctl.ev
                  => ctl'.before = ctl.before
     /\ ctl'.pc = "after"
          => View(heap'[lbStrategy']) = View(StrategyByName(heap'[lbStrategy'].kind, backends'))
     /\ (ctl.pc = "after" /\ ctl' # ctl)
          => /\ ctl'.pc = "idle"
             /\ backends' = backends /\ lbStrategy' = lbStrategy
             /\ logged'.op = ctl.ev.EventName
             /\ logged'.before = ctl.before
             /\ logged'.after = snapshot(Strategy).m
             /\ logged'.moved = moved(ctl.before, snapshot(Strategy).m)
     /\ (ctl.pc # "idle" /\ ctl'.pc = "idle")
          => \/ ctl.pc \in {"after", "show", "exit"}
             \/ ctl.pc = "remove" /\ backends' = backends /\ ~logged'.found
     /\ (logged' # logged /\ logged'.what \in {"ADD", "REMOVE", "STRATEGY"})
          => ctl.pc = "after"]_vars

\* The removal of 8082 has reported its three moved keys while a connection
\* was being served.
C21_Witness ==
  /\ ctl.pc = "idle"
  /\ logged.op = CMD_BackendRemove
  /\ logged.what = "REMOVE"
  /\ logged.moved = 3
  /\ backends = <<8081, 8083, 8084>>
  /\ \E t \in 1..NumTasks : InCall(tasks[t])

\* C28: whenever the control-plane loop waits for its next command, the
\* active strategy holds the backends of lb.backends (the same list for
\* RoundRobin, SimpleHash and Static, the same backends on the ring for
\* ConsistentHash), so a selection returns a backend of lb.backends (none
\* when it is empty) and never a backend that was removed from it.
C28_IdleStrategyMatchesTopology ==
  ctl.pc = "idle"
    => /\ Strategy.kind # "ch" => Strategy.Backends = backends
       /\ Strategy.kind = "ch"
            => /\ Range(Strategy.backends) = Range(backends)
               /\ Len(Strategy.backends) = Len(backends)
       /\ \A k \in AllKeys :
            Fit(Strategy, k) \subseteq
              (IF backends = <<>> THEN {Nil} ELSE Range(backends))
       /\ (logged.op = CMD_BackendRemove /\ logged.what = "REMOVE"
             /\ logged.arg \notin Range(backends))
            => \A k \in AllKeys : logged.arg \notin Fit(Strategy, k)

\* The removal of 8082 has completed under RoundRobin.
C28_Witness ==
  /\ ctl.pc = "idle"
  /\ Len(received) = 2
  /\ logged.op = CMD_BackendRemove
  /\ logged.what = "REMOVE"
  /\ Strategy.kind = "rr"
  /\ backends = <<8081, 8083, 8084>>

\* The connections whose dial to the backend on port p succeeded and whose
\* increment of its counter is complete.
Counted(p) ==
  {t \in 1..NumTasks :
     tasks[t].pc = "done" /\ tasks[t].out = "relay" /\ tasks[t].b = p}

\* C34: a backend's NumRequests never overtakes the dials made to it, and
\* once no connection is between its dial and the end of its increment,
\* the counter equals the number of connections dialled to the backend.
C34_CounterEqualsDials ==
  (\A t \in 1..NumTasks : tasks[t].pc \notin {"count", "store"})
    => \A p \in Ports : numRequests[p] = Cardinality(Counted(p))

\* Two connections have been relayed to one backend and its counter is 1.
C34_Witness ==
  \E p \in Ports :
    /\ Counted(p) = 1..NumTasks
    /\ numRequests[p] = 1

\* C35: a selection never faults, whatever the control plane does
\* meanwhile: no call is at a statement that divides by a zero length or
\* indexes a slice out of range, the process has not died of one, and a
\* call that has returned holds nil or a backend.
C35_SelectionNeverFaults ==
  /\ loop # "panicked"
  /\ \A t \in 1..NumTasks :
       /\ tasks[t].pc = "read" => Len(heap[tasks[t].s].Backends) # 0
       /\ tasks[t].pc = "index"
            => IF heap[tasks[t].s].kind = "ch"
                 THEN Len(heap[tasks[t].s].backends) # 0
                 ELSE ReturnIndex(heap[tasks[t].s], tasks[t].tmp) <
                        Len(heap[tasks[t].s].Backends)
       /\ tasks[t].pc \in {"dial", "count", "store", "done"}
            => tasks[t].b \in Ports \cup {Nil}

\* The process has died in a selection on the ring that Init had emptied
\* and was filling again.
C35_Witness ==
  /\ loop = "panicked"
  /\ ctl.pc = "insert"
  /\ \E t \in 1..NumTasks :
       /\ tasks[t].pc = "index"
       /\ heap[tasks[t].s].kind = "ch"
       /\ heap[tasks[t].s].backends = <<>>

====
